---- MODULE Spec2Model ----
(***************************************************************************)
(* Model of pkg/pool/pool.go of integresql: the DBPool registry            *)
(* (map hash -> dbHashPool, guarded by DBPool.mutex) and the per-hash      *)
(* pools (dbs, ready, dirty, guarded by the dbHashPool lock).              *)
(* Every call is split at the points where it can block or run a callback: *)
(* acquiring DBPool.mutex, acquiring the dbHashPool lock, initFunc and     *)
(* removeFunc.  History variables (ret, inUse, lastOp, removed, removedOK,   *)
(* isNew) record what the calls did; they never influence the pool.        *)
(***************************************************************************)
EXTENDS Integers, Sequences, FiniteSets, TLC

\* ---- bounds of the model ----
NumThreads == 2
MaxPoolSize == 2

Threads == 1..NumThreads
Hashes == {"a", "b"}
\* the hash that the calls of Spec and SpecHandout name
OneHash == {"a"}
NoThread == 0
NoHash == "-"
\* ids a caller may pass to ReturnTestDatabase: one below and one above the valid range
ArgIds == -1..MaxPoolSize

VARIABLES
    pools,      \* DBPool.pools: function from the hashes in the map to [dbs, ready, dirty]
    mutex,      \* holder of DBPool.mutex, or NoThread
    poolLock,   \* poolLock[h]: holder of the dbHashPool lock of hash h, or NoThread
    pc,         \* pc[t]: position of thread t inside its call
    op,         \* op[t]: the call thread t is executing
    hash,       \* hash[t]: hash argument (or the hash RemoveAll is currently at)
    idx,        \* idx[t]: id argument of ReturnTestDatabase / index of AddTestDatabase / loop id of removeAllFromPool
    ret,        \* history: what the last step returned to its caller, NoRet when it returned nothing
    inUse,      \* history: inUse[h] = ids handed out by GetDB and not returned or removed since
    lastOp,     \* history: lastOp[h] = what the last operation on the pool of h was
    removed,    \* history: removed[h] = ids for which removeFunc succeeded since the last successful add
                \*          on the pool of h (empty again once the pool is deleted from the map)
    removedOK,  \* history: hashes whose teardown returned nil with no AddTestDatabase since
    isNew       \* history: isNew[t] = the AddTestDatabase call of t found no pool for its hash and created it

vars == <<pools, mutex, poolLock, pc, op, hash, idx, ret, inUse, lastOp, removed, removedOK, isNew>>

\* ---- data ----

newDBHashPool == [dbs |-> <<>>, ready |-> {}, dirty |-> {}]

TestDatabase(index) == [ID |-> index]

NoRet == [op |-> "none", hash |-> NoHash, id |-> -1, err |-> "nil", isDirty |-> FALSE]

Returned(o, h, i, e, d) == [op |-> o, hash |-> h, id |-> i, err |-> e, isDirty |-> d]

OtherOp == [kind |-> "other", id |-> -1]

\* popFirstKey: every (key, rest) the map iteration may produce; (-1, unchanged) on an empty map
popFirstKey(idMap) ==
    IF idMap = {} THEN {<<-1, idMap>>}
    ELSE {<<key, idMap \ {key}>> : key \in idMap}

\* the upper end of the range is accepted: > for >=
InvalidIndexOffByOne(id) == id < 0 \/ id > MaxPoolSize

\* the range check shared by ReturnTestDatabase (argument) and GetDB (sanity check)
InvalidIndex(id) == id < 0 \/ id >= MaxPoolSize

Init ==
    /\ pools = [h \in {} |-> newDBHashPool]
    /\ mutex = NoThread
    /\ poolLock = [h \in Hashes |-> NoThread]
    /\ pc = [t \in Threads |-> "idle"]
    /\ op = [t \in Threads |-> "none"]
    /\ hash = [t \in Threads |-> NoHash]
    /\ idx = [t \in Threads |-> -1]
    /\ ret = NoRet
    /\ inUse = [h \in Hashes |-> {}]
    /\ lastOp = [h \in Hashes |-> OtherOp]
    /\ removed = [h \in Hashes |-> <<>>]
    /\ removedOK = {}
    /\ isNew = [t \in Threads |-> FALSE]

\* thread t leaves its call: locals are reset
Leave(t) ==
    /\ pc' = [pc EXCEPT ![t] = "idle"]
    /\ op' = [op EXCEPT ![t] = "none"]
    /\ hash' = [hash EXCEPT ![t] = NoHash]
    /\ idx' = [idx EXCEPT ![t] = -1]
    /\ isNew' = [isNew EXCEPT ![t] = FALSE]

\* thread t holds DBPool.mutex and goes on to pool.Lock()
Enter(t, o, h, i) ==
    /\ mutex' = t
    /\ pc' = [pc EXCEPT ![t] = "lockPool"]
    /\ op' = [op EXCEPT ![t] = o]
    /\ hash' = [hash EXCEPT ![t] = h]
    /\ idx' = [idx EXCEPT ![t] = i]

\* ---- GetDB ----

\* p.mutex.Lock(); lookup; ErrUnknownHash with the mutex released when there is no pool
GetDB(t, h) ==
    /\ pc[t] = "idle"
    /\ mutex = NoThread
    /\ IF h \notin DOMAIN pools
       THEN /\ ret' = Returned("GetDB", h, -1, "ErrUnknownHash", FALSE)
            /\ UNCHANGED <<mutex, pc, op, hash, idx>>
       ELSE /\ Enter(t, "GetDB", h, -1)
            /\ ret' = NoRet
    /\ UNCHANGED <<pools, poolLock, inUse, lastOp, removed, removedOK, isNew>>

\* pool.Lock() does not wait for the holder of the lock
LockPoolNoWait(t) ==
    /\ pc[t] = "lockPool"
    /\ op[t] \in {"GetDB", "AddTestDatabase", "ReturnTestDatabase"}
    /\ poolLock' = [poolLock EXCEPT ![hash[t]] = t]
    /\ mutex' = NoThread
    /\ pc' = [pc EXCEPT ![t] = "body"]
    /\ ret' = NoRet
    /\ UNCHANGED <<pools, op, hash, idx, inUse, lastOp, removed, removedOK, isNew>>

\* pool.Lock() then p.mutex.Unlock(), the same in GetDB, AddTestDatabase and ReturnTestDatabase
LockPool(t) ==
    /\ pc[t] = "lockPool"
    /\ op[t] \in {"GetDB", "AddTestDatabase", "ReturnTestDatabase"}
    /\ poolLock[hash[t]] = NoThread
    /\ poolLock' = [poolLock EXCEPT ![hash[t]] = t]
    /\ mutex' = NoThread
    /\ pc' = [pc EXCEPT ![t] = "body"]
    /\ ret' = NoRet
    /\ UNCHANGED <<pools, op, hash, idx, inUse, lastOp, removed, removedOK, isNew>>

\* isDirty is not set when the index comes from dirty
GetDBPickNoFlag(pool) ==
    IF Cardinality(pool.ready) > 0
    THEN {<<p[1], FALSE, [pool EXCEPT !.ready = p[2]]>> : p \in popFirstKey(pool.ready)}
    ELSE IF Cardinality(pool.dirty) = 0
         THEN {}
         ELSE {<<p[1], FALSE, [pool EXCEPT !.dirty = p[2]]>> : p \in popFirstKey(pool.dirty)}

\* the choice of GetDB: every <<index, isDirty, pool after the pop>>; {} when nothing is ready or dirty
GetDBPick(pool) ==
    IF Cardinality(pool.ready) > 0
    THEN {<<p[1], FALSE, [pool EXCEPT !.ready = p[2]]>> : p \in popFirstKey(pool.ready)}
    ELSE IF Cardinality(pool.dirty) = 0
         THEN {}
         ELSE {<<p[1], TRUE, [pool EXCEPT !.dirty = p[2]]>> : p \in popFirstKey(pool.dirty)}

\* the body of GetDB under the pool lock, up to the deferred pool.Unlock()
GetDBBody(t) ==
    /\ pc[t] = "body"
    /\ op[t] = "GetDB"
    /\ LET h == hash[t]
           pool == pools[h]
       IN  /\ IF GetDBPick(pool) = {}
              THEN /\ ret' = Returned("GetDB", h, -1, "ErrNoDBReady", FALSE)
                   /\ UNCHANGED <<pools, inUse>>
              ELSE \E pick \in GetDBPick(pool) :
                     LET index == pick[1]
                         isDirty == pick[2]
                     IN  /\ pools' = [pools EXCEPT ![h] = pick[3]]
                         /\ IF InvalidIndex(index) \/ Len(pool.dbs) <= index
                            THEN /\ ret' = Returned("GetDB", h, -1, "ErrInvalidIndex", isDirty)
                                 /\ UNCHANGED inUse
                            ELSE /\ ret' = Returned("GetDB", h, pool.dbs[index + 1].ID, "nil", isDirty)
                                 /\ inUse' = [inUse EXCEPT ![h] = @ \cup {index}]
           /\ lastOp' = [lastOp EXCEPT ![h] = OtherOp]
           /\ poolLock' = [poolLock EXCEPT ![h] = NoThread]
    /\ Leave(t)
    /\ UNCHANGED <<mutex, removed, removedOK>>

\* ---- AddTestDatabase ----

\* p.mutex.Lock(); the pool of the hash is created when missing; the mutex stays held for pool.Lock()
AddTestDatabase(t, h) ==
    /\ pc[t] = "idle"
    /\ mutex = NoThread
    /\ pools' = IF h \in DOMAIN pools THEN pools
                ELSE [k \in DOMAIN pools \cup {h} |-> IF k = h THEN newDBHashPool ELSE pools[k]]
    /\ Enter(t, "AddTestDatabase", h, -1)
    /\ removedOK' = removedOK \ {h}
    /\ isNew' = [isNew EXCEPT ![t] = h \notin DOMAIN pools]
    /\ ret' = NoRet
    /\ UNCHANGED <<poolLock, inUse, lastOp, removed>>

\* index := len(pool.dbs)
NextIndex(pool) == Len(pool.dbs)

\* a full pool still passes: > for >=
PoolIsFullOffByOne(index) == index > MaxPoolSize

\* index >= p.maxPoolSize
PoolIsFull(index) == index >= MaxPoolSize

\* index of the next test DB; ErrPoolFull (pool unlocked) or on to initFunc
AddBody(t) ==
    /\ pc[t] = "body"
    /\ op[t] = "AddTestDatabase"
    /\ LET h == hash[t]
           index == NextIndex(pools[h])
       IN  IF PoolIsFull(index)
           THEN /\ ret' = Returned("AddTestDatabase", h, -1, "ErrPoolFull", FALSE)
                /\ lastOp' = [lastOp EXCEPT ![h] = OtherOp]
                /\ poolLock' = [poolLock EXCEPT ![h] = NoThread]
                /\ Leave(t)
           ELSE /\ pc' = [pc EXCEPT ![t] = "initFunc"]
                /\ idx' = [idx EXCEPT ![t] = index]
                /\ ret' = NoRet
                /\ UNCHANGED <<lastOp, poolLock, op, hash, isNew>>
    /\ UNCHANGED <<pools, mutex, inUse, removed, removedOK>>

\* the pool after a successful initFunc: the new test DB appended, its index in ready
AddAppend(pool, index) ==
    [pool EXCEPT !.dbs = Append(@, TestDatabase(index)), !.ready = @ \cup {index}]

\* the slot is appended before the error of initFunc is looked at
AddAbortKeepsSlot(pool, index) == [pool EXCEPT !.dbs = Append(@, TestDatabase(index))]

\* the pool after a failed initFunc: nothing was added
AddAbort(pool, index) == pool

\* initFunc returns (nil or an error) under the pool lock; then the deferred pool.Unlock()
AddInit(t, ok) ==
    /\ pc[t] = "initFunc"
    /\ LET h == hash[t]
           index == idx[t]
       IN  /\ IF ok
              THEN /\ pools' = [pools EXCEPT ![h] = AddAppend(@, index)]
                   /\ ret' = Returned("AddTestDatabase", h, index, "nil", FALSE)
                   /\ lastOp' = [lastOp EXCEPT ![h] = OtherOp]
                   /\ removed' = [removed EXCEPT ![h] = <<>>]
              ELSE /\ pools' = [pools EXCEPT ![h] = AddAbort(@, index)]
                   /\ ret' = Returned("AddTestDatabase", h, -1, "ErrInit", FALSE)
                   /\ lastOp' = [lastOp EXCEPT ![h] = [kind |-> "addFailed", id |-> index]]
                   /\ UNCHANGED removed
           /\ poolLock' = [poolLock EXCEPT ![h] = NoThread]
    /\ Leave(t)
    /\ UNCHANGED <<mutex, inUse, removedOK>>

\* ---- ReturnTestDatabase ----

\* p.mutex.Lock(); the index check comes first, then the lookup; both errors release the mutex
ReturnTestDatabase(t, h, id) ==
    /\ pc[t] = "idle"
    /\ mutex = NoThread
    /\ IF InvalidIndex(id)
       THEN /\ ret' = Returned("ReturnTestDatabase", h, id, "ErrInvalidIndex", FALSE)
            /\ UNCHANGED <<mutex, pc, op, hash, idx>>
       ELSE IF h \notin DOMAIN pools
            THEN /\ ret' = Returned("ReturnTestDatabase", h, id, "ErrUnknownHash", FALSE)
                 /\ UNCHANGED <<mutex, pc, op, hash, idx>>
            ELSE /\ Enter(t, "ReturnTestDatabase", h, id)
                 /\ ret' = NoRet
    /\ UNCHANGED <<pools, poolLock, inUse, lastOp, removed, removedOK, isNew>>

\* the lookup in dirty is skipped when dirty holds a single id
AlreadyReturnedOffByOne(pool, id) == Cardinality(pool.dirty) > 1 /\ id \in pool.dirty

\* "check if pool has been already returned": dirty is non-empty and holds the id
AlreadyReturned(pool, id) == Cardinality(pool.dirty) > 0 /\ id \in pool.dirty

\* the body of ReturnTestDatabase under the pool lock, up to the deferred pool.Unlock()
ReturnBody(t) ==
    /\ pc[t] = "body"
    /\ op[t] = "ReturnTestDatabase"
    /\ LET h == hash[t]
           id == idx[t]
       IN  /\ IF AlreadyReturned(pools[h], id)
              THEN /\ ret' = Returned("ReturnTestDatabase", h, id, "ErrUnknownID", FALSE)
                   /\ lastOp' = [lastOp EXCEPT ![h] =
                                   IF @ = [kind |-> "returned", id |-> id]
                                   THEN [kind |-> "rejected", id |-> id] ELSE OtherOp]
                   /\ UNCHANGED <<pools, inUse>>
              ELSE /\ pools' = [pools EXCEPT ![h].dirty = @ \cup {id}]
                   /\ ret' = Returned("ReturnTestDatabase", h, id, "nil", FALSE)
                   /\ lastOp' = [lastOp EXCEPT ![h] = [kind |-> "returned", id |-> id]]
                   /\ inUse' = [inUse EXCEPT ![h] = @ \ {id}]
           /\ poolLock' = [poolLock EXCEPT ![h] = NoThread]
    /\ Leave(t)
    /\ UNCHANGED <<mutex, removed, removedOK>>

\* ---- RemoveAllWithHash, RemoveAll, removeAllFromPool ----

\* p.mutex.Lock() (held until the call returns); lookup; ErrUnknownHash when there is no pool
RemoveAllWithHash(t, h) ==
    /\ pc[t] = "idle"
    /\ mutex = NoThread
    /\ IF h \notin DOMAIN pools
       THEN /\ ret' = Returned("RemoveAllWithHash", h, -1, "ErrUnknownHash", FALSE)
            /\ UNCHANGED <<mutex, pc, op, hash, idx>>
       ELSE /\ Enter(t, "RemoveAllWithHash", h, -1)
            /\ ret' = NoRet
    /\ UNCHANGED <<pools, poolLock, inUse, lastOp, removed, removedOK, isNew>>

\* p.mutex.Lock() (held until the call returns), then the range over p.pools
RemoveAll(t) ==
    /\ pc[t] = "idle"
    /\ mutex = NoThread
    /\ mutex' = t
    /\ pc' = [pc EXCEPT ![t] = "range"]
    /\ op' = [op EXCEPT ![t] = "RemoveAll"]
    /\ ret' = NoRet
    /\ UNCHANGED <<pools, poolLock, hash, idx, inUse, lastOp, removed, removedOK, isNew>>

\* for hash, pool := range p.pools: any pool still in the map comes next; nil when none is left
RangePools(t) ==
    /\ pc[t] = "range"
    /\ IF DOMAIN pools = {}
       THEN /\ ret' = Returned("RemoveAll", NoHash, -1, "nil", FALSE)
            /\ removedOK' = Hashes
            /\ mutex' = NoThread
            /\ Leave(t)
       ELSE /\ \E h \in DOMAIN pools :
                 /\ hash' = [hash EXCEPT ![t] = h]
                 /\ pc' = [pc EXCEPT ![t] = "lockPool"]
            /\ ret' = NoRet
            /\ UNCHANGED <<removedOK, mutex, op, idx, isNew>>
    /\ UNCHANGED <<pools, poolLock, inUse, lastOp, removed>>

\* id := len(pool.dbs) - 1
RemoveStart(pool) == Len(pool.dbs) - 1

\* removeAllFromPool: pool.Lock() with DBPool.mutex held, and the loop variable set
RemoveLockPool(t) ==
    /\ pc[t] = "lockPool"
    /\ op[t] \in {"RemoveAllWithHash", "RemoveAll"}
    /\ poolLock[hash[t]] = NoThread
    /\ poolLock' = [poolLock EXCEPT ![hash[t]] = t]
    /\ idx' = [idx EXCEPT ![t] = RemoveStart(pools[hash[t]])]
    /\ pc' = [pc EXCEPT ![t] = "loop"]
    /\ ret' = NoRet
    /\ UNCHANGED <<pools, mutex, op, hash, inUse, lastOp, removed, removedOK, isNew>>

\* the first slot is cut off instead of the last
RemoveSlotFromFront(pool, id) ==
    [dbs |-> SubSeq(pool.dbs, 2, Len(pool.dbs)),
     ready |-> pool.ready \ {id},
     dirty |-> pool.dirty \ {id}]

\* the pool after removeFunc succeeded for id: the last slot cut off, id out of dirty and ready
RemoveSlot(pool, id) ==
    [dbs |-> SubSeq(pool.dbs, 1, Len(pool.dbs) - 1),
     ready |-> pool.ready \ {id},
     dirty |-> pool.dirty \ {id}]

\* the error return of the loop leaves the pool locked
RemoveFuncKeepsLock(t, ok) ==
    /\ pc[t] = "loop"
    /\ idx[t] >= 0
    /\ LET h == hash[t]
           id == idx[t]
       IN  IF ok
           THEN /\ pools' = [pools EXCEPT ![h] = RemoveSlot(@, id)]
                /\ idx' = [idx EXCEPT ![t] = id - 1]
                /\ removed' = [removed EXCEPT ![h] = Append(@, pools[h].dbs[id + 1].ID)]
                /\ inUse' = [inUse EXCEPT ![h] = @ \ {id}]
                /\ lastOp' = [lastOp EXCEPT ![h] = OtherOp]
                /\ ret' = NoRet
                /\ UNCHANGED <<mutex, poolLock, pc, op, hash, isNew>>
           ELSE /\ ret' = Returned(op[t], IF op[t] = "RemoveAll" THEN NoHash ELSE h, -1, "ErrRemove", FALSE)
                /\ poolLock' = poolLock
                /\ mutex' = NoThread
                /\ lastOp' = [lastOp EXCEPT ![h] = [kind |-> "removeFailed", id |-> id]]
                /\ Leave(t)
                /\ UNCHANGED <<pools, removed, inUse>>
    /\ UNCHANGED removedOK

\* one iteration of the loop: removeFunc(pool.dbs[id]) returns nil or an error
RemoveFunc(t, ok) ==
    /\ pc[t] = "loop"
    /\ idx[t] >= 0
    /\ LET h == hash[t]
           id == idx[t]
       IN  IF ok
           THEN /\ pools' = [pools EXCEPT ![h] = RemoveSlot(@, id)]
                /\ idx' = [idx EXCEPT ![t] = id - 1]
                /\ removed' = [removed EXCEPT ![h] = Append(@, pools[h].dbs[id + 1].ID)]
                /\ inUse' = [inUse EXCEPT ![h] = @ \ {id}]
                /\ lastOp' = [lastOp EXCEPT ![h] = OtherOp]
                /\ ret' = NoRet
                /\ UNCHANGED <<mutex, poolLock, pc, op, hash, isNew>>
           ELSE /\ ret' = Returned(op[t], IF op[t] = "RemoveAll" THEN NoHash ELSE h, -1, "ErrRemove", FALSE)
                /\ poolLock' = [poolLock EXCEPT ![h] = NoThread]
                /\ mutex' = NoThread
                /\ lastOp' = [lastOp EXCEPT ![h] = [kind |-> "removeFailed", id |-> id]]
                /\ Leave(t)
                /\ UNCHANGED <<pools, removed, inUse>>
    /\ UNCHANGED removedOK

\* RemoveAll goes on to the next pool without pool.Unlock()
RemoveDoneKeepsLock(t) ==
    /\ pc[t] = "loop"
    /\ idx[t] < 0
    /\ LET h == hash[t]
       IN  /\ poolLock' = IF op[t] = "RemoveAllWithHash"
                         THEN [poolLock EXCEPT ![h] = NoThread]
                         ELSE poolLock
           /\ IF op[t] = "RemoveAllWithHash"
              THEN /\ ret' = Returned("RemoveAllWithHash", h, -1, "nil", FALSE)
                   /\ removedOK' = removedOK \cup {h}
                   /\ mutex' = NoThread
                   /\ Leave(t)
                   /\ UNCHANGED <<pools, removed>>
              ELSE /\ pools' = [k \in DOMAIN pools \ {h} |-> pools[k]]
                   /\ removed' = [removed EXCEPT ![h] = <<>>]
                   /\ pc' = [pc EXCEPT ![t] = "range"]
                   /\ hash' = [hash EXCEPT ![t] = NoHash]
                   /\ idx' = [idx EXCEPT ![t] = -1]
                   /\ ret' = NoRet
                   /\ UNCHANGED <<removedOK, mutex, op, isNew>>
           /\ lastOp' = [lastOp EXCEPT ![h] = OtherOp]
    /\ UNCHANGED inUse

\* the loop is over: pool.Unlock(); RemoveAllWithHash returns nil, RemoveAll deletes the entry and goes on
RemoveDone(t) ==
    /\ pc[t] = "loop"
    /\ idx[t] < 0
    /\ LET h == hash[t]
       IN  /\ poolLock' = [poolLock EXCEPT ![h] = NoThread]
           /\ IF op[t] = "RemoveAllWithHash"
              THEN /\ ret' = Returned("RemoveAllWithHash", h, -1, "nil", FALSE)
                   /\ removedOK' = removedOK \cup {h}
                   /\ mutex' = NoThread
                   /\ Leave(t)
                   /\ UNCHANGED <<pools, removed>>
              ELSE /\ pools' = [k \in DOMAIN pools \ {h} |-> pools[k]]
                   /\ removed' = [removed EXCEPT ![h] = <<>>]
                   /\ pc' = [pc EXCEPT ![t] = "range"]
                   /\ hash' = [hash EXCEPT ![t] = NoHash]
                   /\ idx' = [idx EXCEPT ![t] = -1]
                   /\ ret' = NoRet
                   /\ UNCHANGED <<removedOK, mutex, op, isNew>>
           /\ lastOp' = [lastOp EXCEPT ![h] = OtherOp]
    /\ UNCHANGED inUse

\* ---- specifications ----

\* the calls, entered by an idle thread
GetDBCall == \E t \in Threads, h \in OneHash : GetDB(t, h)
AddCall == \E t \in Threads, h \in OneHash : AddTestDatabase(t, h)
ReturnCall == \E t \in Threads, h \in OneHash, id \in ArgIds : ReturnTestDatabase(t, h, id)
RemoveWithHashCall == \E t \in Threads, h \in OneHash : RemoveAllWithHash(t, h)

\* the steps every call takes once it is under way
HandoutSteps ==
    \/ \E t \in Threads : LockPool(t)
    \/ \E t \in Threads : GetDBBody(t)
    \/ \E t \in Threads : AddBody(t)
    \/ \E t \in Threads, ok \in BOOLEAN : AddInit(t, ok)
    \/ \E t \in Threads : ReturnBody(t)

RemoveSteps ==
    \/ \E t \in Threads : RangePools(t)
    \/ \E t \in Threads : RemoveLockPool(t)
    \/ \E t \in Threads, ok \in BOOLEAN : RemoveFunc(t, ok)
    \/ \E t \in Threads : RemoveDone(t)

\* GetDB, AddTestDatabase and ReturnTestDatabase only
NextHandout ==
    \/ GetDBCall
    \/ AddCall
    \/ ReturnCall
    \/ HandoutSteps

Next ==
    \/ GetDBCall
    \/ AddCall
    \/ ReturnCall
    \/ RemoveWithHashCall
    \/ \E t \in Threads : RemoveAll(t)
    \/ HandoutSteps
    \/ RemoveSteps

Spec == Init /\ [][Next]_vars

SpecHandout == Init /\ [][NextHandout]_vars

\* a client that returns only what it holds: the id of a ReturnTestDatabase call is one
\* that a GetDB handed out for the hash and that was neither returned nor removed since
ProperReturnCall ==
    \E t \in Threads, h \in OneHash : \E id \in inUse[h] : ReturnTestDatabase(t, h, id)

\* every operation of the pool, with clients that return only what they hold
NextProper ==
    \/ GetDBCall
    \/ AddCall
    \/ ProperReturnCall
    \/ RemoveWithHashCall
    \/ \E t \in Threads : RemoveAll(t)
    \/ HandoutSteps
    \/ RemoveSteps

SpecProper == Init /\ [][NextProper]_vars

\* AddTestDatabase for any hash: a second pool comes into the map
AddCallAny == \E t \in Threads, h \in Hashes : AddTestDatabase(t, h)

\* two pools: every operation on the first hash, and adds on the second, so that RemoveAll
\* walks over two pools while calls on either of them are under way
NextTwoPools ==
    \/ AddCallAny
    \/ GetDBCall
    \/ ProperReturnCall
    \/ RemoveWithHashCall
    \/ \E t \in Threads : RemoveAll(t)
    \/ HandoutSteps
    \/ RemoveSteps

SpecTwoPools == Init /\ [][NextTwoPools]_vars

\* the steps of the call that thread t is in; every one of them returns or moves on once
\* its lock is free, initFunc and removeFunc included (they terminate, with or without error)
CallStep(t) ==
    \/ LockPool(t)
    \/ GetDBBody(t)
    \/ AddBody(t)
    \/ \E ok \in BOOLEAN : AddInit(t, ok)
    \/ ReturnBody(t)
    \/ RangePools(t)
    \/ RemoveLockPool(t)
    \/ \E ok \in BOOLEAN : RemoveFunc(t, ok)
    \/ RemoveDone(t)

\* fair scheduling: a goroutine that can take the next step of its call eventually takes it;
\* nothing obliges a client to start a call
Fairness == \A t \in Threads : WF_vars(CallStep(t))

SpecTwoPoolsFair == Init /\ [][NextTwoPools]_vars /\ Fairness

\* GetDB, AddTestDatabase and ReturnTestDatabase only, with clients that return only what
\* they hold: no teardown takes a slot away
NextHandoutProper ==
    \/ GetDBCall
    \/ AddCall
    \/ ProperReturnCall
    \/ HandoutSteps

SpecHandoutFair == Init /\ [][NextHandoutProper]_vars /\ Fairness

\* ---- steps, as seen from a pair of states ----

\* thread t executes the body of a GetDB call and returns
GetDBReturns(t) == pc[t] = "body" /\ op[t] = "GetDB" /\ pc'[t] = "idle"

\* thread t executes the body of a ReturnTestDatabase call and returns
ReturnReturns(t) == pc[t] = "body" /\ op[t] = "ReturnTestDatabase" /\ pc'[t] = "idle"

\* the initFunc of thread t returns
InitFuncReturns(t) == pc[t] = "initFunc" /\ pc'[t] = "idle"

\* ---- C1 ----

\* C1: no double handout: a successful GetDB never returns an id that an earlier GetDB
\* returned for the same hash with no successful ReturnTestDatabase of that id since
\* (interleavings of GetDB, AddTestDatabase and ReturnTestDatabase only).
NoDoubleHandout ==
    [][\A t \in Threads :
         (GetDBReturns(t) /\ ret'.err = "nil") => ret'.id \notin inUse[hash[t]]]_vars

\* ---- C2 ----

\* C2: partition invariant: when no pool lock is held, ready, dirty and the handed out
\* ids of every pool are pairwise disjoint and their union is 0 .. len(dbs)-1.
PartitionInvariant ==
    (\A h \in Hashes : poolLock[h] = NoThread) =>
        \A h \in DOMAIN pools :
            LET p == pools[h]
            IN  /\ p.ready \cap p.dirty = {}
                /\ p.ready \cap inUse[h] = {}
                /\ p.dirty \cap inUse[h] = {}
                /\ p.ready \cup p.dirty \cup inUse[h] = 0..(Len(p.dbs) - 1)

\* ---- C3 ----

CapacityInv ==
    /\ \A h \in DOMAIN pools :
          /\ Len(pools[h].dbs) <= MaxPoolSize
          /\ \A j \in 1..Len(pools[h].dbs) : pools[h].dbs[j].ID < MaxPoolSize
    /\ \A t \in Threads : pc[t] = "initFunc" => Len(pools[hash[t]].dbs) < MaxPoolSize

CapacityStep ==
    \A t \in Threads :
        (/\ pc[t] = "body"
         /\ op[t] = "AddTestDatabase"
         /\ pc'[t] # "body"
         /\ Len(pools[hash[t]].dbs) = MaxPoolSize)
        => /\ pc'[t] = "idle"
           /\ ret' = Returned("AddTestDatabase", hash[t], -1, "ErrPoolFull", FALSE)
           /\ pools' = pools

\* C3: bounded capacity: no pool ever has more than MaxPoolSize slots and every slot id
\* is below MaxPoolSize; initFunc never runs for a pool that has MaxPoolSize slots; an
\* AddTestDatabase that finds MaxPoolSize slots returns ErrPoolFull and adds nothing.
BoundedCapacity == []CapacityInv /\ [][CapacityStep]_vars

\* an AddTestDatabase got ErrPoolFull on a full pool while another one for the same hash is pending
PoolFullReached ==
    /\ ret.op = "AddTestDatabase"
    /\ ret.err = "ErrPoolFull"
    /\ ret.hash \in DOMAIN pools
    /\ Len(pools[ret.hash].dbs) = MaxPoolSize
    /\ \E t \in Threads : op[t] = "AddTestDatabase" /\ hash[t] = ret.hash

\* ---- C4 ----

\* C4: double-return rejection: a ReturnTestDatabase(h, id) that is the next operation on
\* the pool of h after a successful ReturnTestDatabase(h, id) returns ErrUnknownID and
\* leaves dbs, ready and dirty as they were.
DoubleReturnRejected ==
    [][\A t \in Threads :
         (ReturnReturns(t) /\ lastOp[hash[t]] = [kind |-> "returned", id |-> idx[t]])
         => /\ ret' = Returned("ReturnTestDatabase", hash[t], idx[t], "ErrUnknownID", FALSE)
            /\ pools' = pools]_vars

\* a second return directly after a successful one has been rejected
DoubleReturnSeen ==
    /\ ret.op = "ReturnTestDatabase"
    /\ ret.err = "ErrUnknownID"
    /\ ret.hash \in DOMAIN pools
    /\ lastOp[ret.hash] = [kind |-> "rejected", id |-> ret.id]
    /\ ret.id \in pools[ret.hash].dirty

\* ---- C5 ----

\* C5: ReturnTestDatabase(h, id) with an id that is not handed out (in ready, never
\* allocated, never returned by GetDB) returns ErrUnknownID and does not put id into dirty.
ReturnOnlyInUse ==
    [][\A t \in Threads :
         (ReturnReturns(t) /\ idx[t] \notin inUse[hash[t]])
         => /\ ret'.err = "ErrUnknownID"
            /\ pools'[hash[t]].dirty = pools[hash[t]].dirty]_vars

\* ---- C6 ----

\* C6: GetDB preference order: with ready non-empty GetDB takes an id out of ready, returns
\* it with isDirty = false and leaves dirty alone; isDirty = true only with ready empty and
\* the id taken out of dirty; for a successful GetDB isDirty holds exactly when the id was
\* in dirty and not in ready.
GetDBPreference ==
    [][\A t \in Threads :
         GetDBReturns(t) =>
            LET p == pools[hash[t]]
                q == pools'[hash[t]]
            IN  /\ p.ready # {} =>
                      /\ ret'.err = "nil"
                      /\ ret'.isDirty = FALSE
                      /\ ret'.id \in p.ready
                      /\ q.ready = p.ready \ {ret'.id}
                      /\ q.dirty = p.dirty
                /\ (ret'.err = "nil" /\ ret'.isDirty) =>
                      /\ p.ready = {}
                      /\ ret'.id \in p.dirty
                      /\ q.dirty = p.dirty \ {ret'.id}
                      /\ q.ready = p.ready
                /\ ret'.err = "nil" =>
                      (ret'.isDirty <=> (ret'.id \in p.dirty /\ ret'.id \notin p.ready))]_vars

\* a GetDB handed out a dirty slot while another slot of the pool is handed out as well
DirtyHandedOut ==
    /\ ret.op = "GetDB"
    /\ ret.err = "nil"
    /\ ret.isDirty
    /\ ret.id \in inUse[ret.hash]
    /\ Cardinality(inUse[ret.hash]) > 1

\* ---- C7 ----

\* C7: ReturnTestDatabase validation: id < 0 or id >= MaxPoolSize gives ErrInvalidIndex,
\* whether or not the hash has a pool; a valid id with a hash that has no pool gives
\* ErrUnknownHash; in both cases the call is over and no pool is created or modified.
ReturnValidation ==
    [][\A t \in Threads, h \in Hashes, id \in ArgIds :
         ReturnTestDatabase(t, h, id) =>
            /\ (id < 0 \/ id >= MaxPoolSize) =>
                  /\ ret' = Returned("ReturnTestDatabase", h, id, "ErrInvalidIndex", FALSE)
                  /\ pc'[t] = "idle" /\ mutex' = NoThread
                  /\ pools' = pools
            /\ (id >= 0 /\ id < MaxPoolSize /\ h \notin DOMAIN pools) =>
                  /\ ret' = Returned("ReturnTestDatabase", h, id, "ErrUnknownHash", FALSE)
                  /\ pc'[t] = "idle" /\ mutex' = NoThread
                  /\ pools' = pools]_vars

\* the id just above the range was rejected for a hash that has no pool
InvalidIndexUnknownHash ==
    /\ ret.op = "ReturnTestDatabase"
    /\ ret.err = "ErrInvalidIndex"
    /\ ret.id = MaxPoolSize
    /\ ret.hash \notin DOMAIN pools

\* ---- C8 ----

AddInv ==
    /\ \A h \in DOMAIN pools : \A j \in 1..Len(pools[h].dbs) : pools[h].dbs[j].ID = j - 1
    /\ \A t \in Threads :
          pc[t] = "initFunc" =>
             /\ idx[t] = Len(pools[hash[t]].dbs)
             /\ lastOp[hash[t]].kind = "addFailed" => idx[t] = lastOp[hash[t]].id

AddStep ==
    \A t \in Threads :
        InitFuncReturns(t) =>
           LET h == hash[t]
               id == idx[t]
           IN  IF ret'.err = "nil"
               THEN /\ ret' = Returned("AddTestDatabase", h, id, "nil", FALSE)
                    /\ pools'[h].dbs = Append(pools[h].dbs, [ID |-> id])
                    /\ pools'[h].dbs[id + 1].ID = id
                    /\ pools'[h].ready = pools[h].ready \cup {id}
                    /\ pools'[h].dirty = pools[h].dirty
               ELSE pools' = pools

\* C8: AddTestDatabase offers id = number of slots; a failed initFunc leaves the pool as it
\* was, and an AddTestDatabase that comes next on the hash is offered the same id; a
\* successful initFunc appends the slot at position id and puts id into ready; the slot
\* at position i always has id i, so no two slots got the same id from their adds.
AddAllocation == []AddInv /\ [][AddStep]_vars

\* after a failed add, the next add on the hash is inside initFunc with the same id (not 0),
\* while a further add for the hash is pending
SameIdOfferedAgain ==
    \E t \in Threads :
        /\ pc[t] = "initFunc"
        /\ idx[t] > 0
        /\ lastOp[hash[t]] = [kind |-> "addFailed", id |-> idx[t]]
        /\ \E u \in Threads \ {t} : op[u] = "AddTestDatabase" /\ hash[u] = hash[t]

\* ---- C9 ----

SlotCount(h) == IF h \in DOMAIN pools THEN Len(pools[h].dbs) ELSE 0

TeardownInv ==
    /\ \A h \in Hashes :
          \A j \in 1..Len(removed[h]) : removed[h][j] = SlotCount(h) + Len(removed[h]) - j
    /\ \A t \in Threads :
          pc[t] = "loop" =>
             /\ idx[t] = Len(pools[hash[t]].dbs) - 1
             /\ lastOp[hash[t]].kind = "removeFailed" => idx[t] = lastOp[hash[t]].id

TeardownStep ==
    \A t \in Threads :
        (pc[t] = "loop" /\ idx[t] >= 0 /\ pc'[t] = "idle") =>
            /\ ret'.err = "ErrRemove"
            /\ pools' = pools
            /\ Len(pools'[hash[t]].dbs) = idx[t] + 1

\* C9: teardown order and retry: removeFunc is called for the highest remaining id; when it
\* fails at id k the pool keeps exactly the slots 0..k, so that a retry starts at k; the ids
\* for which removeFunc succeeded, over the attempts since the last successful add, are
\* consecutive and descending down to the number of slots left: each once, none skipped.
TeardownOrder == []TeardownInv /\ [][TeardownStep]_vars

\* after an attempt that removed the top slot and failed below it, a retry is in the loop at
\* the id of the failure
TeardownRetried ==
    \E t \in Threads :
        /\ pc[t] = "loop"
        /\ lastOp[hash[t]] = [kind |-> "removeFailed", id |-> idx[t]]
        /\ removed[hash[t]] # <<>>
        /\ Len(pools[hash[t]].dbs) = idx[t] + 1

\* ---- C10 ----

\* C10: after a teardown of a hash returned nil and until the next AddTestDatabase for the
\* hash, the pool map has no entry for the hash.
EntryGoneAfterRemove == \A h \in removedOK : h \notin DOMAIN pools

\* ---- C11 ----

\* the configuration the force-return policy is about (ManagerConfig.TestDatabaseForceReturn)
TestDatabaseForceReturn == TRUE

\* C11: force-return policy: with ForceReturn = true no successful GetDB has isDirty = true,
\* and a GetDB that finds ready empty and the pool at MaxPoolSize fails instead of taking a
\* slot out of dirty.
ForceReturnNoDirty ==
    [][TestDatabaseForceReturn =>
         \A t \in Threads :
            GetDBReturns(t) =>
               /\ ret'.err = "nil" => ret'.isDirty = FALSE
               /\ LET p == pools[hash[t]]
                  IN  (p.ready = {} /\ Len(p.dbs) = MaxPoolSize) =>
                         (ret'.err # "nil" /\ pools' = pools)]_vars

\* ---- C12 ----

\* C12: eventual readiness: from every state in which a pool has a dirty slot, the system
\* eventually reaches a state in which that pool has a ready slot.  Stated in a form that
\* asks for less: it is also enough that the pool was torn down or that its dirty slots
\* were all handed out again in the meantime.
EventualReadiness ==
    \A h \in OneHash :
       (h \in DOMAIN pools /\ pools[h].dirty # {})
          ~> (h \notin DOMAIN pools \/ pools[h].ready # {} \/ pools[h].dirty = {})

\* ---- C13 ----

\* C13: no id reuse: while a pool stays in the map, a successful AddTestDatabase never
\* allocates an id that a slot removed from that pool by a teardown had.
NoIdReuse ==
    [][\A t \in Threads :
         (InitFuncReturns(t) /\ ret'.err = "nil") =>
            \A j \in 1..Len(removed[hash[t]]) : removed[hash[t]][j] # idx[t]]_vars

\* ---- C14 ----

\* thread t is inside a callback: initFunc of AddTestDatabase, or removeFunc of the teardown
\* loop (the loop has a slot left, so removeFunc is what runs next)
InCallback(t) == pc[t] = "initFunc" \/ (pc[t] = "loop" /\ idx[t] >= 0)

\* thread t is blocked in pool.Lock() on a pool whose lock is held by a thread inside a callback
WaitsForCallback(t) ==
    /\ pc[t] = "lockPool"
    /\ poolLock[hash[t]] # NoThread
    /\ InCallback(poolLock[hash[t]])

\* C14: the registry lock (DBPool.mutex) is never held while a callback runs or while the
\* holder is blocked: no thread that executes initFunc or removeFunc, or that waits for a
\* pool lock held by a thread executing such a callback, holds DBPool.mutex.
RegistryLockFreeDuringIO ==
    \A t \in Threads : (InCallback(t) \/ WaitsForCallback(t)) => mutex # t

\* ---- C15 ----

\* a call on hash b can get past its first statement, p.mutex.Lock(), without any call on
\* hash a having to finish first: the mutex is free, or the thread that holds it is not a
\* GetDB, AddTestDatabase or ReturnTestDatabase on a that waits for the lock of pool a
CanPassRegistry(a, b) ==
    \/ mutex = NoThread
    \/ ~ /\ op[mutex] \in {"GetDB", "AddTestDatabase", "ReturnTestDatabase"}
         /\ hash[mutex] = a
         /\ hash[mutex] # b
         /\ WaitsForCallback(mutex)

\* C15: operations on unrelated hashes do not serialize: while an AddTestDatabase on hash a
\* is inside initFunc and other calls on a are pending, a call on another hash b never has
\* to wait for an operation on a to finish.
UnrelatedHashesProceed ==
    \A t \in Threads, b \in Hashes :
        (pc[t] = "initFunc" /\ b # hash[t]) => CanPassRegistry(hash[t], b)

\* ---- C16 ----

\* the pools whose lock thread t holds
HeldPools(t) == {h \in Hashes : poolLock[h] = t}

LockOrderInv ==
    \A t \in Threads :
        /\ Cardinality(HeldPools(t)) <= 1
        /\ pc[t] = "idle" => (mutex # t /\ HeldPools(t) = {})
        /\ pc[t] \in {"lockPool", "range"} => (mutex = t /\ HeldPools(t) = {})

LockOrderStep ==
    \A t \in Threads :
        /\ (mutex # t /\ mutex' = t) => HeldPools(t) = {}
        /\ \A h \in Hashes :
              (poolLock[h] # t /\ poolLock'[h] = t) => (mutex = t /\ HeldPools(t) = {})

\* C16: lock order: the registry lock is taken first and the pool lock second; a thread that
\* takes or waits for the registry lock holds no pool lock, a thread that takes or waits for
\* a pool lock holds the registry lock and no other pool lock, and no thread ever holds the
\* locks of two pools at once.
LockOrder == []LockOrderInv /\ [][LockOrderStep]_vars

\* RemoveAll holds the registry lock and the lock of one pool, inside its loop, while
\* another thread holds the lock of the other pool inside initFunc
TwoPoolsLocked ==
    \E t, u \in Threads :
        /\ t # u
        /\ mutex = t
        /\ op[t] = "RemoveAll"
        /\ pc[t] = "loop"
        /\ HeldPools(t) = {hash[t]}
        /\ pc[u] = "initFunc"
        /\ hash[u] # hash[t]
        /\ HeldPools(u) = {hash[u]}

\* ---- C17 ----

\* thread t is at a statement that reads or writes the slots, ready or dirty of the pool of h
InPool(t, h) == pc[t] \in {"body", "initFunc", "loop"} /\ hash[t] = h

\* the step is one of thread t: no other thread moves
StepOf(t) ==
    /\ pc'[t] # pc[t] \/ idx'[t] # idx[t]
    /\ \A u \in Threads \ {t} : pc'[u] = pc[u] /\ idx'[u] = idx[u] /\ hash'[u] = hash[u]

ExclusionInv ==
    \A h \in Hashes :
        /\ \A t \in Threads : InPool(t, h) => poolLock[h] = t
        /\ Cardinality({t \in Threads : InPool(t, h)}) <= 1
        /\ poolLock[h] # NoThread => InPool(poolLock[h], h)

ExclusionStep ==
    \A h \in Hashes :
        (h \in DOMAIN pools /\ h \in DOMAIN pools' /\ pools'[h] # pools[h]) =>
            /\ poolLock[h] # NoThread
            /\ InPool(poolLock[h], h)
            /\ StepOf(poolLock[h])

\* C17: per-pool mutual exclusion: a thread that reads or writes the slots, ready or dirty
\* of a pool holds the lock of that pool, at most one thread holds it at a time, and from
\* the moment a call obtains the lock to the moment it gives it up the pool changes only by
\* the steps of that call, so the calls on a pool take effect one after the other.
PoolMutualExclusion == []ExclusionInv /\ [][ExclusionStep]_vars

\* AddTestDatabase is inside initFunc with the pool lock while a ReturnTestDatabase for the
\* same hash waits for that lock
ContendedPool ==
    \E t, u \in Threads :
        /\ t # u
        /\ pc[t] = "initFunc"
        /\ poolLock[hash[t]] = t
        /\ pc[u] = "lockPool"
        /\ op[u] = "ReturnTestDatabase"
        /\ hash[u] = hash[t]

\* ---- C18 ----

\* C18: the sanity checks in GetDB never fire: GetDB never returns ErrInvalidIndex, and it
\* never takes an id out of ready or dirty without handing out the slot of that id.
SanityChecksNeverFire ==
    [][\A t \in Threads :
         GetDBReturns(t) =>
            /\ ret'.err # "ErrInvalidIndex"
            /\ pools'[hash[t]] # pools[hash[t]] => ret'.err = "nil"]_vars

\* ---- C19 ----

\* the AddTestDatabase call of thread t returns an error (ErrPoolFull or the error of initFunc)
AddFails(t) ==
    /\ op[t] = "AddTestDatabase"
    /\ pc[t] \in {"body", "initFunc"}
    /\ pc'[t] = "idle"
    /\ ret'.err # "nil"

\* C19: a failed AddTestDatabase has no effect on the pool: when the call found no pool for
\* its hash, the hash has no pool after the call returned its error either, so that GetDB
\* and RemoveAllWithHash still return ErrUnknownHash.
FailedAddLeavesNoPool ==
    [][\A t \in Threads :
         (AddFails(t) /\ isNew[t]) => hash[t] \notin DOMAIN pools']_vars

\* ---- C20 ----

LocksFreeWhenIdle ==
    (\A t \in Threads : pc[t] = "idle") =>
        (mutex = NoThread /\ \A h \in Hashes : poolLock[h] = NoThread)

EveryCallReturns == \A t \in Threads : (pc[t] # "idle") ~> (pc[t] = "idle")

\* C20: deadlock freedom: with initFunc and removeFunc terminating, under fair scheduling
\* every call that is under way eventually returns, on the error paths as well, and once
\* all calls have returned no lock is held.
DeadlockFreedom == EveryCallReturns /\ []LocksFreeWhenIdle

\* RemoveAll holds the registry lock and waits for the lock of a pool that an AddTestDatabase
\* holds inside initFunc, with a second pool in the map
BlockedTeardown ==
    \E t, u \in Threads :
        /\ t # u
        /\ op[t] = "RemoveAll"
        /\ pc[t] = "lockPool"
        /\ mutex = t
        /\ poolLock[hash[t]] = u
        /\ pc[u] = "initFunc"
        /\ Cardinality(DOMAIN pools) = 2

====
